---------------------------- MODULE Spec2Model ----------------------------
(***************************************************************************)
(* A model of libpmemkv.cc: the typed configuration container              *)
(* (the pmemkv_config functions), JSON ingestion, engine selection         *)
(* (pmemkv_open) and the query facade over an engine (pmemkv_get_copy...). *)
(*                                                                         *)
(* Memory is modelled as bytes: an entry's value is the std::vector<char>  *)
(* the code stores, a 64-bit integer is its eight little-endian bytes, a   *)
(* pointer is its eight-byte object representation.                        *)
(***************************************************************************)
EXTENDS Integers, Sequences, FiniteSets, TLC

\* ------------------------------------------------------------------ bounds

\* Most pmemkv_config_put_object calls in one run of the container model.
MaxObjectPuts == 2

\* Most pmemkv_config objects the heap holds: pmemkv_config_new returns
\* nullptr (new throws) once it is full.
MaxConfigs == 4
\* Most members of a JSON object handed to pmemkv_config_from_json.
MaxMembers == 2
\* The latest put of one ingestion that may be made to fail on allocation.
MaxOomAt == 2

\* Largest destination buffer handed to pmemkv_get_copy.
MaxBuf == 2
\* Longest value an engine delivers to the value callback.
MaxValueLen == 2

\* ------------------------------------------------------- program constants

\* sizeof(value) of a void *, the size pmemkv_config_get_object checks.
PtrSize == 8
\* sizeof(int64_t), sizeof(uint64_t), sizeof(double): the value_size of a
\* numeric put.
WordSize == 8

\* ------------------------------------------------------------------ status

PMEMKV_STATUS_OK == "OK"
PMEMKV_STATUS_FAILED == "FAILED"
PMEMKV_STATUS_NOT_FOUND == "NOT_FOUND"
PMEMKV_STATUS_INVALID_ARGUMENT == "INVALID_ARGUMENT"
PMEMKV_STATUS_CONFIG_PARSING_ERROR == "CONFIG_PARSING_ERROR"
PMEMKV_STATUS_CONFIG_TYPE_ERROR == "CONFIG_TYPE_ERROR"

\* enum class config_type
config_type == {"STRING", "INT64", "UINT64", "DOUBLE", "DATA", "OBJECT"}

\* An out-parameter the call did not write.
Untouched == [untouched |-> TRUE]
\* nullptr, as a deleter and as a handle.
Null == "nullptr"

\* ------------------------------------------------------------------- bytes

Fill(n, b) == [i \in 1..n |-> b]

\* Unsigned comparison a < b of two little-endian words, most significant
\* byte first.
RECURSIVE LtFrom(_, _, _)
LtFrom(a, b, i) ==
    IF i = 0 THEN FALSE
    ELSE IF a[i] # b[i] THEN a[i] < b[i]
    ELSE LtFrom(a, b, i - 1)

LtU(a, b) == LtFrom(a, b, WordSize)

\* bs + 1 modulo 2^64.
Inc(bs) ==
    LET nf == {i \in 1..Len(bs) : bs[i] # 255}
    IN  IF nf = {} THEN Fill(Len(bs), 0)
        ELSE LET j == CHOOSE i \in nf : \A k \in nf : i <= k
             IN  [i \in 1..Len(bs) |->
                    IF i < j THEN 0 ELSE IF i = j THEN bs[i] + 1 ELSE bs[i]]

\* Two's complement negation modulo 2^64.
Neg2c(bs) == Inc([i \in 1..Len(bs) |-> 255 - bs[i]])

\* A mathematical integer: a sign and a 64-bit magnitude (little-endian).
Num(neg, mag) == [neg |-> neg, mag |-> mag]

WZero == Fill(WordSize, 0)
WOne == <<1, 0, 0, 0, 0, 0, 0, 0>>
WFive == <<5, 0, 0, 0, 0, 0, 0, 0>>
\* std::numeric_limits<int64_t>::max() = 2^63 - 1
WInt64Max == <<255, 255, 255, 255, 255, 255, 255, 127>>
WInt64MaxLess1 == <<254, 255, 255, 255, 255, 255, 255, 127>>
\* 2^63
WPow63 == <<0, 0, 0, 0, 0, 0, 0, 128>>
\* 2^64 - 1
WUInt64Max == Fill(WordSize, 255)

\* The object representation of an int64_t (two's complement) and back.
EncodeInt64(n) == IF n.neg THEN Neg2c(n.mag) ELSE n.mag
DecodeInt64(bs) ==
    IF bs[WordSize] >= 128 THEN Num(TRUE, Neg2c(bs)) ELSE Num(FALSE, bs)
\* The object representation of a uint64_t and back.
EncodeUInt64(n) == n.mag
DecodeUInt64(bs) == Num(FALSE, bs)

\* The C string at the start of a buffer: the bytes before the first NUL.
CStr(bs) ==
    LET z == {i \in 1..Len(bs) : bs[i] = 0}
    IN  IF z = {} THEN bs
        ELSE SubSeq(bs, 1, (CHOOSE i \in z : \A k \in z : i <= k) - 1)

\* ------------------------------------------------------------------ inputs

\* int64_t arguments: 0, -1, INT64_MAX, INT64_MIN.
Int64Samples ==
    {Num(FALSE, WZero), Num(TRUE, WOne), Num(FALSE, WInt64Max),
     Num(TRUE, WPow63)}

\* uint64_t arguments: 5, INT64_MAX - 1, INT64_MAX, UINT64_MAX.
UInt64Samples ==
    {Num(FALSE, WFive), Num(FALSE, WInt64MaxLess1), Num(FALSE, WInt64Max),
     Num(FALSE, WUInt64Max)}

\* A double argument, as its IEEE-754 bytes: 1.5.
DoubleSamples == {<<0, 0, 0, 0, 0, 0, 248, 63>>}

\* String arguments: "" and "/tmp/kv", which with its NUL fills as many
\* bytes as a pointer.
StringSamples == {<<>>, <<47, 116, 109, 112, 47, 107, 118>>}

\* Data arguments: a buffer of three bytes and one of a pointer's size.
DataSamples == {<<1, 2, 3>>, <<1, 2, 3, 4, 5, 6, 7, 8>>}

\* Addresses of two objects of the caller.
ObjA == <<16, 32, 0, 0, 0, 0, 0, 0>>
ObjB == <<48, 32, 0, 0, 0, 0, 0, 0>>

\* A destructor of the caller's, and pmemkv_config_delete used as one.
UserDeleter == "user_deleter"
ConfigDeleter == "pmemkv_config_delete"

\* The (object, deleter) arguments of pmemkv_config_put_object.
ObjectSamples ==
    {[object |-> ObjA, deleter |-> UserDeleter],
     [object |-> ObjB, deleter |-> UserDeleter],
     [object |-> ObjA, deleter |-> Null]}

Keys == {"path", "size"}

\* ------------------------------------------------------------------- state

VARIABLES
    configs,    \* the heap of pmemkv_config objects: umap and times deleted
    deleterLog, \* every deleter invocation: <<deleter, object, during>>
    objectPuts, \* the put_object calls with a deleter that returned OK
    last,       \* the last call: operation, arguments, status, outputs
    errormsg,   \* the last-error message slot (out_get_errormsg)
    proc,       \* "running", or "crashed" once undefined behaviour trapped
    build,      \* the ENGINE_ macros the library was compiled with
    db          \* the caller's pmemkv_db pointer: nullptr or an engine

vars == <<configs, deleterLog, objectPuts, last, errormsg, proc, build, db>>
dbVars == <<build, db>>

\* The container the caller created with pmemkv_config_new.
Root == 1

\* pmemkv_config_new: an empty umap.
pmemkv_config_new == [umap |-> <<>>, deleted |-> 0]

NoCall == [op |-> "none"]


\* The address of the pmemkv_config at heap index c, and back.
ConfigAddr(c) == <<c, 64, 0, 0, 0, 0, 0, 0>>
IsConfigAddr(p) == Len(p) = PtrSize /\ p[2] = 64 /\ \A i \in 3..PtrSize : p[i] = 0
ConfigAt(p) == p[1]

\* ------------------------------------------------- configuration container

\* struct pmemkv_config::entry
entry(value, deleter, type) ==
    [value |-> value, deleter |-> deleter, type |-> type]

\* std::unordered_map::insert: no effect when the key is already there.
umap_insert(umap, key, e) ==
    IF key \in DOMAIN umap THEN umap ELSE umap @@ (key :> e)

\* pmemkv_config_put. value is the memory at the pointer; the vector holds
\* its first value_size bytes; the deleter is nullptr. oom: an allocation
\* inside the try block throws, which the catch-all turns into FAILED.
pmemkv_config_put(umap, key, value, value_size, type, oom) ==
    IF oom THEN [status |-> PMEMKV_STATUS_FAILED, umap |-> umap]
    ELSE [status |-> PMEMKV_STATUS_OK,
          umap |-> umap_insert(umap, key,
                               entry(SubSeq(value, 1, value_size), Null, type))]

\* pmemkv_config_get with all three out-parameters supplied.
pmemkv_config_get(umap, key) ==
    IF key \notin DOMAIN umap
    THEN [status |-> PMEMKV_STATUS_NOT_FOUND, value |-> Untouched,
          value_size |-> Untouched, type |-> Untouched]
    ELSE [status |-> PMEMKV_STATUS_OK, value |-> umap[key].value,
          value_size |-> Len(umap[key].value), type |-> umap[key].type]

pmemkv_config_put_data(umap, key, value, value_size, oom) ==
    pmemkv_config_put(umap, key, value, value_size, "DATA", oom)

\* pmemkv_config_put_object: the vector holds the bytes of the pointer.
pmemkv_config_put_object(umap, key, value, deleter, oom) ==
    IF oom THEN [status |-> PMEMKV_STATUS_FAILED, umap |-> umap]
    ELSE [status |-> PMEMKV_STATUS_OK,
          umap |-> umap_insert(umap, key,
                               entry(SubSeq(value, 1, PtrSize), deleter, "OBJECT"))]

pmemkv_config_put_int64(umap, key, value, oom) ==
    pmemkv_config_put(umap, key, EncodeInt64(value), WordSize, "INT64", oom)

pmemkv_config_put_uint64(umap, key, value, oom) ==
    pmemkv_config_put(umap, key, EncodeUInt64(value), WordSize, "UINT64", oom)

\* A double is handled as its eight bytes throughout.
pmemkv_config_put_double(umap, key, value, oom) ==
    pmemkv_config_put(umap, key, value, WordSize, "DOUBLE", oom)

\* value is the string's characters; the memory at the pointer ends with
\* the NUL, which is stored too (char_traits::length(value) + 1).
pmemkv_config_put_string(umap, key, value, oom) ==
    pmemkv_config_put(umap, key, Append(value, 0), Len(value) + 1, "STRING", oom)

\* pmemkv_config_get_data: pmemkv_config_get with a null type pointer; the
\* stored type is not looked at.
pmemkv_config_get_data(umap, key) ==
    LET g == pmemkv_config_get(umap, key)
    IN  [status |-> g.status, value |-> g.value, value_size |-> g.value_size]

\* pmemkv_config_get_object. Only the size is compared with sizeof(value).
\* When the key is absent the memcpy reads through the uninitialized
\* ptr_ptr: undefined behaviour, here a trap or NOT_FOUND with garbage.
pmemkv_config_get_object(umap, key) ==
    LET g == pmemkv_config_get(umap, key)
    IN  IF g.status = PMEMKV_STATUS_OK /\ g.value_size # PtrSize
        THEN {[status |-> PMEMKV_STATUS_CONFIG_TYPE_ERROR, value |-> Untouched]}
        ELSE IF g.status = PMEMKV_STATUS_OK
        THEN {[status |-> g.status, value |-> SubSeq(g.value, 1, PtrSize)]}
        ELSE {[status |-> g.status, value |-> [garbage |-> TRUE]],
              [status |-> "SIGSEGV", value |-> Untouched]}

\* pmemkv_config_get_int64 with the bound of the conversion off by one:
\* uval <= max() where the code has uval < max().
pmemkv_config_get_int64_le(umap, key) ==
    LET g == pmemkv_config_get(umap, key)
    IN  IF g.status # PMEMKV_STATUS_OK
        THEN [status |-> g.status, value |-> Untouched]
        ELSE IF g.type = "INT64"
        THEN [status |-> PMEMKV_STATUS_OK, value |-> DecodeInt64(g.value)]
        ELSE IF g.type = "UINT64" /\ ~LtU(WInt64Max, g.value)
        THEN [status |-> PMEMKV_STATUS_OK, value |-> DecodeInt64(g.value)]
        ELSE [status |-> PMEMKV_STATUS_CONFIG_TYPE_ERROR, value |-> Untouched]

pmemkv_config_get_int64(umap, key) ==
    LET g == pmemkv_config_get(umap, key)
    IN  IF g.status # PMEMKV_STATUS_OK
        THEN [status |-> g.status, value |-> Untouched]
        ELSE IF g.type = "INT64"
        THEN [status |-> PMEMKV_STATUS_OK, value |-> DecodeInt64(g.value)]
        ELSE IF g.type = "UINT64" /\ LtU(g.value, WInt64Max)
        THEN [status |-> PMEMKV_STATUS_OK, value |-> DecodeInt64(g.value)]
        ELSE [status |-> PMEMKV_STATUS_CONFIG_TYPE_ERROR, value |-> Untouched]

pmemkv_config_get_uint64(umap, key) ==
    LET g == pmemkv_config_get(umap, key)
    IN  IF g.status # PMEMKV_STATUS_OK
        THEN [status |-> g.status, value |-> Untouched]
        ELSE IF g.type = "UINT64"
        THEN [status |-> PMEMKV_STATUS_OK, value |-> DecodeUInt64(g.value)]
        ELSE IF g.type = "INT64" /\ ~DecodeInt64(g.value).neg
        THEN [status |-> PMEMKV_STATUS_OK, value |-> DecodeUInt64(g.value)]
        ELSE [status |-> PMEMKV_STATUS_CONFIG_TYPE_ERROR, value |-> Untouched]

pmemkv_config_get_double(umap, key) ==
    LET g == pmemkv_config_get(umap, key)
    IN  IF g.status # PMEMKV_STATUS_OK
        THEN [status |-> g.status, value |-> Untouched]
        ELSE IF g.type # "DOUBLE"
        THEN [status |-> PMEMKV_STATUS_CONFIG_TYPE_ERROR, value |-> Untouched]
        ELSE [status |-> PMEMKV_STATUS_OK, value |-> g.value]

\* The pointer returned is to the stored bytes; the caller reads a C string.
pmemkv_config_get_string(umap, key) ==
    LET g == pmemkv_config_get(umap, key)
    IN  IF g.status # PMEMKV_STATUS_OK
        THEN [status |-> g.status, value |-> Untouched]
        ELSE IF g.type # "STRING"
        THEN [status |-> PMEMKV_STATUS_CONFIG_TYPE_ERROR, value |-> Untouched]
        ELSE [status |-> PMEMKV_STATUS_OK, value |-> CStr(g.value)]

\* One more invocation of a deleter in the log (a bag: the order in which
\* an unordered_map is walked is unspecified).
Logged(log, call) ==
    IF call \in DOMAIN log THEN [log EXCEPT ![call] = @ + 1]
    ELSE log @@ (call :> 1)

\* pmemkv_config_delete(c): every OBJECT entry with a deleter has it called
\* on the pointer rebuilt from the stored bytes, then the config is deleted.
\* st is the heap and the log; a deleter that is pmemkv_config_delete itself
\* (a child made by pmemkv_config_from_json) deletes the child in turn.
RECURSIVE pmemkv_config_delete(_, _, _)
RECURSIVE DeleteItems(_, _, _, _)
DeleteItems(st, c, keys, during) ==
    IF keys = {} THEN st
    ELSE LET k == CHOOSE x \in keys : TRUE
             item == st.configs[c].umap[k]
             object == SubSeq(item.value, 1, Len(item.value))
             called == [st EXCEPT !.log =
                           Logged(@, <<item.deleter, object, during>>)]
             after ==
                 IF item.type = "OBJECT" /\ item.deleter # Null
                 THEN IF item.deleter = ConfigDeleter /\ IsConfigAddr(object)
                           /\ ConfigAt(object) \in DOMAIN st.configs
                      THEN pmemkv_config_delete(called, ConfigAt(object), during)
                      ELSE called
                 ELSE st
         IN  DeleteItems(after, c, keys \ {k}, during)

pmemkv_config_delete(st, c, during) ==
    LET done == DeleteItems(st, c, DOMAIN st.configs[c].umap, during)
    IN  [done EXCEPT !.configs[c].deleted = @ + 1]


\* ------------------------------------------- the container's calls (Spec)

umap == configs[Root].umap

\* The caller may call while the process runs and the config is not deleted.
Usable == proc = "running" /\ configs[Root].deleted = 0

Count(bag) ==
    LET RECURSIVE Sum(_)
        Sum(d) == IF d = {} THEN 0
                  ELSE LET x == CHOOSE y \in d : TRUE IN bag[x] + Sum(d \ {x})
    IN  Sum(DOMAIN bag)

\* A typed put on the root container returned r.
PutReturns(op, key, r) ==
    /\ configs' = [configs EXCEPT ![Root].umap = r.umap]
    /\ last' = [op |-> op, key |-> key, status |-> r.status,
                out |-> Untouched, present |-> key \in DOMAIN umap,
                err |-> <<>>]
    /\ UNCHANGED <<deleterLog, errormsg, proc, dbVars>>

\* A typed get on the root container returned r.
GetReturns(op, key, r) ==
    /\ last' = [op |-> op, key |-> key, status |-> r.status,
                out |-> r.value, present |-> key \in DOMAIN umap,
                err |-> <<>>]
    /\ UNCHANGED <<configs, deleterLog, objectPuts, errormsg, proc, dbVars>>

ConfigPutInt64 ==
    \E key \in Keys, v \in Int64Samples, oom \in BOOLEAN :
        /\ Usable
        /\ PutReturns("put_int64", key,
                      pmemkv_config_put_int64(umap, key, v, oom))
        /\ UNCHANGED objectPuts

ConfigPutUInt64 ==
    \E key \in Keys, v \in UInt64Samples, oom \in BOOLEAN :
        /\ Usable
        /\ PutReturns("put_uint64", key,
                      pmemkv_config_put_uint64(umap, key, v, oom))
        /\ UNCHANGED objectPuts

ConfigPutDouble ==
    \E key \in Keys, v \in DoubleSamples, oom \in BOOLEAN :
        /\ Usable
        /\ PutReturns("put_double", key,
                      pmemkv_config_put_double(umap, key, v, oom))
        /\ UNCHANGED objectPuts

ConfigPutString ==
    \E key \in Keys, v \in StringSamples, oom \in BOOLEAN :
        /\ Usable
        /\ PutReturns("put_string", key,
                      pmemkv_config_put_string(umap, key, v, oom))
        /\ UNCHANGED objectPuts

ConfigPutData ==
    \E key \in Keys, v \in DataSamples, oom \in BOOLEAN :
        /\ Usable
        /\ PutReturns("put_data", key,
                      pmemkv_config_put_data(umap, key, v, Len(v), oom))
        /\ UNCHANGED objectPuts

ConfigPutObject ==
    \E key \in Keys, a \in ObjectSamples, oom \in BOOLEAN :
        /\ Usable
        /\ Count(objectPuts) < MaxObjectPuts
        /\ LET r == pmemkv_config_put_object(umap, key, a.object, a.deleter,
                                             oom)
           IN  /\ PutReturns("put_object", key, r)
               /\ objectPuts' =
                      IF r.status = PMEMKV_STATUS_OK /\ a.deleter # Null
                      THEN Logged(objectPuts, <<a.deleter, a.object>>)
                      ELSE objectPuts

ConfigGetData ==
    \E key \in Keys :
        /\ Usable
        /\ GetReturns("get_data", key, pmemkv_config_get_data(umap, key))

ConfigGetObject ==
    \E key \in Keys :
        /\ Usable
        /\ \E r \in pmemkv_config_get_object(umap, key) :
              /\ last' = [op |-> "get_object", key |-> key,
                          status |-> r.status, out |-> r.value,
                          present |-> key \in DOMAIN umap, err |-> <<>>]
              /\ proc' = IF r.status = "SIGSEGV" THEN "crashed" ELSE proc
        /\ UNCHANGED <<configs, deleterLog, objectPuts, errormsg, dbVars>>

ConfigGetInt64 ==
    \E key \in Keys :
        /\ Usable
        /\ GetReturns("get_int64", key, pmemkv_config_get_int64(umap, key))

ConfigGetUInt64 ==
    \E key \in Keys :
        /\ Usable
        /\ GetReturns("get_uint64", key, pmemkv_config_get_uint64(umap, key))

ConfigGetDouble ==
    \E key \in Keys :
        /\ Usable
        /\ GetReturns("get_double", key, pmemkv_config_get_double(umap, key))

ConfigGetString ==
    \E key \in Keys :
        /\ Usable
        /\ GetReturns("get_string", key, pmemkv_config_get_string(umap, key))

ConfigDelete ==
    /\ Usable
    /\ LET st == pmemkv_config_delete([configs |-> configs, log |-> deleterLog],
                                      Root, "config_delete")
       IN  /\ configs' = st.configs
           /\ deleterLog' = st.log
    /\ last' = [op |-> "config_delete"]
    /\ UNCHANGED <<objectPuts, errormsg, proc, dbVars>>

Init ==
    /\ configs = <<pmemkv_config_new>>
    /\ deleterLog = <<>>
    /\ objectPuts = <<>>
    /\ last = NoCall
    /\ errormsg = ""
    /\ proc = "running"
    /\ build = {}
    /\ db = Null

Next ==
    \/ ConfigPutInt64
    \/ ConfigPutUInt64
    \/ ConfigPutDouble
    \/ ConfigPutString
    \/ ConfigPutData
    \/ ConfigPutObject
    \/ ConfigGetData
    \/ ConfigGetObject
    \/ ConfigGetInt64
    \/ ConfigGetUInt64
    \/ ConfigGetDouble
    \/ ConfigGetString
    \/ ConfigDelete

Spec == Init /\ [][Next]_vars


\* ------------------------------------------------------- claims C1 .. C4

PutOps == {"put_int64", "put_uint64", "put_double", "put_string", "put_data",
           "put_object"}
GetOps == {"get_int64", "get_uint64", "get_double", "get_string", "get_data",
           "get_object"}

\* The type a typed getter asks for.
GetterType(op) ==
    CASE op = "get_int64" -> "INT64"
      [] op = "get_uint64" -> "UINT64"
      [] op = "get_double" -> "DOUBLE"
      [] op = "get_string" -> "STRING"
      [] op = "get_data" -> "DATA"
      [] op = "get_object" -> "OBJECT"

\* C1: a typed put on a key the container already holds returns FAILED and
\* leaves the entry of the first put (value, deleter, type) as it was.
C1_DuplicatePutFails ==
    [][\A k \in Keys :
          (last'.op \in PutOps /\ last'.key = k /\ k \in DOMAIN umap)
              => (last'.status = PMEMKV_STATUS_FAILED /\ umap'[k] = umap[k])]_vars

\* C2: a typed getter for U on an entry stored with type T returns
\* CONFIG_TYPE_ERROR unless U = T or {T, U} = {INT64, UINT64}.
C2_TypeError ==
    (last.op \in GetOps /\ last.present
        /\ umap[last.key].type # GetterType(last.op)
        /\ {umap[last.key].type, GetterType(last.op)} # {"INT64", "UINT64"})
    => last.status = PMEMKV_STATUS_CONFIG_TYPE_ERROR

\* v < INT64_MAX for an unsigned v: below 2^63 and not 2^63 - 1.
BelowInt64Max(v) == ~v.neg /\ v.mag[WordSize] < 128 /\ v.mag # WInt64Max

\* C3: get_int64 on an entry stored by put_uint64(v) returns OK and v iff
\* v < INT64_MAX, else CONFIG_TYPE_ERROR; get_uint64 on an entry stored by
\* put_int64(v) returns OK and v iff v >= 0, else CONFIG_TYPE_ERROR.
C3_NumericConversion ==
    /\ \A v \in UInt64Samples :
          (last.op = "get_int64" /\ last.present
              /\ umap[last.key] = entry(EncodeUInt64(v), Null, "UINT64"))
          => IF BelowInt64Max(v)
             THEN last.status = PMEMKV_STATUS_OK /\ last.out = v
             ELSE last.status = PMEMKV_STATUS_CONFIG_TYPE_ERROR
    /\ \A v \in Int64Samples :
          (last.op = "get_uint64" /\ last.present
              /\ umap[last.key] = entry(EncodeInt64(v), Null, "INT64"))
          => IF ~v.neg
             THEN last.status = PMEMKV_STATUS_OK /\ last.out = v
             ELSE last.status = PMEMKV_STATUS_CONFIG_TYPE_ERROR

\* get_int64 has refused a stored uint64 INT64_MAX.
C3_Witness ==
    /\ last.op = "get_int64" /\ last.present
    /\ umap[last.key] = entry(WInt64Max, Null, "UINT64")
    /\ last.status = PMEMKV_STATUS_CONFIG_TYPE_ERROR

CountOf(bag, x) == IF x \in DOMAIN bag THEN bag[x] ELSE 0

\* C4: no deleter runs before pmemkv_config_delete, and once the container
\* is deleted every put_object call that returned OK with a deleter has had
\* deleter(object) invoked once, during pmemkv_config_delete.
C4_DeleterOncePerPut ==
    /\ configs[Root].deleted = 0 => deleterLog = <<>>
    /\ configs[Root].deleted > 0 =>
          \A c \in DOMAIN objectPuts :
              CountOf(deleterLog, <<c[1], c[2], "config_delete">>) = objectPuts[c]


\* ---------------------------------------------------------- JSON ingestion

\* A JSON text, as what rapidjson's Document::Parse gives for it: a parse
\* error, or an object, a sequence of members (name, value). Member names
\* may repeat.
SyntaxError == [parse_error |-> TRUE, doc |-> <<>>]
\* The text rapidjson's Writer gives for an object.
Written(members) == [parse_error |-> FALSE, doc |-> members]

JString(str) == [kind |-> "String", str |-> str]
JInt64(num) == [kind |-> "Int64", num |-> num]
JDouble(dbl) == [kind |-> "Double", dbl |-> dbl]
JTrue == [kind |-> "True"]
JFalse == [kind |-> "False"]
\* A number above INT64_MAX: IsNumber, but neither IsInt64 nor IsDouble.
JUint64 == [kind |-> "Uint64"]
JNull == [kind |-> "Null"]
JArray == [kind |-> "Array"]
JObject(members) == [kind |-> "Object", members |-> members]
Member(name, value) == [name |-> name, value |-> value]

IsNumber(v) == v.kind \in {"Int64", "Uint64", "Double"}

\* kTypeNames[itr->value.GetType()]
kTypeNames(v) ==
    CASE v.kind = "Null" -> "Null"
      [] v.kind = "False" -> "False"
      [] v.kind = "True" -> "True"
      [] v.kind = "Object" -> "Object"
      [] v.kind = "Array" -> "Array"
      [] v.kind = "String" -> "String"
      [] OTHER -> "Number"

\* doc.HasMember(name) and doc[name], the first member of that name.
HasMember(doc, name) == \E i \in 1..Len(doc) : doc[i].name = name
MemberValue(doc, name) ==
    doc[CHOOSE i \in 1..Len(doc) :
            doc[i].name = name /\ \A j \in 1..(i - 1) : doc[j].name # name].value

\* ERR() << msg: the slot holds msg, and the call has written it.
ERR(st, msg) == [st EXCEPT !.errormsg = msg, !.err = <<msg>>]

\* The put numbered oomAt (counted over the whole ingestion) fails on
\* allocation.
Oom(st, oomAt) == st.puts + 1 = oomAt

\* One typed put of the ingestion into config c has returned r.
Ingest(st, c, r) ==
    [st |-> [st EXCEPT !.configs[c].umap = r.umap, !.puts = @ + 1],
     status |-> r.status]

\* The outcome of one member: the loop goes on, an exception is thrown, or
\* the function returns.
GoOn(st) == [st |-> st, how |-> "next"]
Throw(st, msg) == [st |-> st, how |-> "throw", what |-> msg]
Return(st, status) == [st |-> st, how |-> "return", status |-> status]

PutOrThrow(p, msg) ==
    IF p.status # PMEMKV_STATUS_OK THEN Throw(p.st, msg) ELSE GoOn(p.st)

RECURSIVE pmemkv_config_from_json(_, _, _, _)

\* The body of the loop over the members, for member m of config c.
FromJsonMember(st, c, m, oomAt) ==
    LET v == m.value
        u == st.configs[c].umap
        oom == Oom(st, oomAt)
    IN  CASE v.kind = "String" ->
               PutOrThrow(
                   Ingest(st, c,
                          pmemkv_config_put_string(u, m.name, v.str, oom)),
                   "Inserting string to the config failed")
          [] v.kind = "Int64" ->
               PutOrThrow(
                   Ingest(st, c,
                          pmemkv_config_put_int64(u, m.name, v.num, oom)),
                   "Inserting int to the config failed")
          [] v.kind = "Double" ->
               PutOrThrow(
                   Ingest(st, c,
                          pmemkv_config_put_double(u, m.name, v.dbl, oom)),
                   "Inserting double to the config failed")
          [] v.kind \in {"True", "False"} ->
               PutOrThrow(
                   Ingest(st, c,
                          pmemkv_config_put_int64(
                              u, m.name,
                              Num(FALSE, IF v.kind = "True" THEN WOne ELSE WZero),
                              oom)),
                   "Inserting bool to the config failed")
          [] v.kind = "Object" ->
               IF Len(st.configs) >= MaxConfigs
               THEN Return(ERR(st, "Cannot allocate subconfig"),
                           PMEMKV_STATUS_FAILED)
               ELSE LET sub_cfg == Len(st.configs) + 1
                        made == [st EXCEPT !.configs =
                                    Append(@, pmemkv_config_new)]
                        sub == pmemkv_config_from_json(made, sub_cfg,
                                                       Written(v.members),
                                                       oomAt)
                    IN  IF sub.status # PMEMKV_STATUS_OK
                        THEN Throw(
                                 LET d == pmemkv_config_delete(
                                              [configs |-> sub.st.configs,
                                               log |-> sub.st.log],
                                              sub_cfg, "config_from_json")
                                 IN  [sub.st EXCEPT !.configs = d.configs,
                                                    !.log = d.log],
                                 "Cannot parse subconfig")
                        ELSE PutOrThrow(
                                 Ingest(sub.st, c,
                                        pmemkv_config_put_object(
                                            sub.st.configs[c].umap, m.name,
                                            ConfigAddr(sub_cfg), ConfigDeleter,
                                            Oom(sub.st, oomAt))),
                                 "Inserting a new entry to the config failed")
          [] OTHER ->
               Throw(st, [type |-> kTypeNames(v),
                          what |-> "Unsupported data type in JSON string: "])

\* for (itr = doc.MemberBegin(); itr != doc.MemberEnd(); ++itr)
RECURSIVE FromJsonMembers(_, _, _, _, _)
FromJsonMembers(st, c, doc, i, oomAt) ==
    IF i > Len(doc) THEN GoOn(st)
    ELSE LET r == FromJsonMember(st, c, doc[i], oomAt)
         IN  IF r.how = "next" THEN FromJsonMembers(r.st, c, doc, i + 1, oomAt)
             ELSE r

\* pmemkv_config_from_json(c, json): st is the heap, the deleter log, the
\* error message, the message this call wrote with ERR() (<<>> when none)
\* and the count of puts made so far.
pmemkv_config_from_json(st, c, json, oomAt) ==
    IF json.parse_error
    THEN [st |-> st, status |-> PMEMKV_STATUS_CONFIG_PARSING_ERROR]
    ELSE LET doc == json.doc
             r ==
                 IF HasMember(doc, "path")
                        /\ MemberValue(doc, "path").kind # "String"
                 THEN Throw(st, "'path' in JSON is not a valid string")
                 ELSE IF HasMember(doc, "size")
                             /\ ~IsNumber(MemberValue(doc, "size"))
                 THEN Throw(st, "'size' in JSON is not a valid number")
                 ELSE FromJsonMembers(st, c, doc, 1, oomAt)
         IN  CASE r.how = "throw" ->
                    [st |-> ERR(r.st, r.what),
                     status |-> PMEMKV_STATUS_CONFIG_PARSING_ERROR]
               [] r.how = "return" -> [st |-> r.st, status |-> r.status]
               [] OTHER -> [st |-> r.st, status |-> PMEMKV_STATUS_OK]


\* ----------------------------------------- ingestion's calls (SpecJson)

SeqsUpTo(S, n) == UNION {[1..k -> S] : k \in 0..n}

\* Scalar and unsupported member values.
JsonScalars ==
    {JString(<<>>), JInt64(Num(FALSE, WFive)),
     JDouble(<<0, 0, 0, 0, 0, 0, 248, 63>>), JTrue, JUint64, JNull, JArray}

\* Nested objects: {}, {"a": 5}, {"a": null}, {"a": {}}, {"path": 5}.
JsonNested ==
    {<<>>,
     <<Member("a", JInt64(Num(FALSE, WFive)))>>,
     <<Member("a", JNull)>>,
     <<Member("a", JObject(<<>>))>>,
     <<Member("path", JInt64(Num(FALSE, WFive)))>>}

JsonNames == {"path", "size", "a"}

\* The texts handed to pmemkv_config_from_json: one that does not parse,
\* and the objects of up to MaxMembers members.
JsonTexts ==
    {SyntaxError}
        \cup {Written(d) :
                 d \in SeqsUpTo({Member(n, v) :
                                     n \in JsonNames,
                                     v \in JsonScalars
                                         \cup {JObject(x) : x \in JsonNested}},
                                MaxMembers)}

\* pmemkv_config_from_json on the container just created.
ConfigFromJson ==
    \E json \in JsonTexts, oomAt \in 0..MaxOomAt :
        /\ Usable
        /\ last.op = "none"
        /\ LET r == pmemkv_config_from_json(
                        [configs |-> configs, log |-> deleterLog,
                         errormsg |-> errormsg, err |-> <<>>,
                         puts |-> 0],
                        Root, json, oomAt)
           IN  /\ configs' = r.st.configs
               /\ deleterLog' = r.st.log
               /\ errormsg' = r.st.errormsg
               /\ last' = [op |-> "config_from_json", status |-> r.status,
                           err |-> r.st.err]
        /\ UNCHANGED <<objectPuts, proc, dbVars>>

NextJson ==
    \/ ConfigFromJson
    \/ ConfigDelete

SpecJson == Init /\ [][NextJson]_vars

\* C5: once the root container is deleted, every child container made by
\* pmemkv_config_from_json has been deleted exactly once.
C5_ChildrenDeletedOnce ==
    (last.op = "config_delete")
        => \A c \in DOMAIN configs : c # Root => configs[c].deleted = 1


\* ------------------------------------------------------------ engines

\* The engines pmemkv_open knows by name; all but blackhole are compiled in
\* only under their ENGINE_ macro.
OptionalEngines == {"caching", "tree3", "stree", "cmap", "vsmap", "vcmap"}
KnownEngines(b) == {"blackhole"} \cup b

\* What a call into an engine (a method of engine_base, or a constructor)
\* does: it returns a status, throws a std::exception, or throws something
\* that is no std::exception.
Returns(status) == [how |-> "returns", status |-> status]
ThrowsStd == [how |-> "throws_std", what |-> "engine failure"]
ThrowsOther == [how |-> "throws_other"]
EngineOutcomes ==
    {Returns(s) : s \in {PMEMKV_STATUS_OK, PMEMKV_STATUS_NOT_FOUND,
                         PMEMKV_STATUS_FAILED}}
        \cup {ThrowsStd, ThrowsOther}
ConstructorOutcomes == {Returns(PMEMKV_STATUS_OK), ThrowsStd, ThrowsOther}

\* What engine_base::get does with the value callback: calls it once with
\* the value of the key, or not at all when the key is absent, or throws.
Found(v) == [how |-> "found", value |-> v]
Absent == [how |-> "absent"]
GetOutcomes ==
    {Found([i \in 1..n |-> 64 + i]) : n \in 0..MaxValueLen}
        \cup {Absent, ThrowsStd, ThrowsOther}

\* The statuses of the C interface.
Statuses ==
    {PMEMKV_STATUS_OK, PMEMKV_STATUS_FAILED, PMEMKV_STATUS_NOT_FOUND,
     PMEMKV_STATUS_INVALID_ARGUMENT, PMEMKV_STATUS_CONFIG_PARSING_ERROR,
     PMEMKV_STATUS_CONFIG_TYPE_ERROR}

\* The result of a call of the facade: the status returned (or "SIGSEGV"
\* when the process trapped, "EXCEPTION" when an exception left the call),
\* the message written with ERR() (<<>> when none was), whether an engine
\* was called.
Result(status, err, called) ==
    [status |-> status, err |-> err, called |-> called]

\* A member call through a null engine_base pointer: undefined behaviour.
\* The process traps, or the call comes back with whatever status.
NullCall ==
    {Result("SIGSEGV", <<>>, FALSE)}
        \cup {Result(s, <<>>, FALSE) : s \in Statuses}

\* try { return (int)engine->op(...); } catch (const std::exception &exc)
\* { ERR() << exc.what(); return FAILED; } catch (...) { ERR() <<
\* "Unspecified failure"; return FAILED; }  With catch_all FALSE the last
\* handler is missing and the exception leaves the function.
TryEngine(eng, catch_all) ==
    CASE eng.how = "returns" -> Result(eng.status, <<>>, TRUE)
      [] eng.how = "throws_std" -> Result(PMEMKV_STATUS_FAILED, <<eng.what>>, TRUE)
      [] OTHER ->
           IF catch_all
           THEN Result(PMEMKV_STATUS_FAILED, <<"Unspecified failure">>, TRUE)
           ELSE Result("EXCEPTION", <<>>, TRUE)

\* A facade function called with handle h while the engine behaves as eng.
Facade(h, eng, catch_all) ==
    IF h = Null THEN NullCall ELSE {TryEngine(eng, catch_all)}

pmemkv_count_all(h, eng) == Facade(h, eng, TRUE)
pmemkv_count_above(h, eng) == Facade(h, eng, TRUE)
pmemkv_count_below(h, eng) == Facade(h, eng, TRUE)
pmemkv_count_between(h, eng) == Facade(h, eng, TRUE)
pmemkv_get_all(h, eng) == Facade(h, eng, TRUE)
\* pmemkv_get_above has no catch (...) handler.
pmemkv_get_above(h, eng) == Facade(h, eng, FALSE)
pmemkv_get_below(h, eng) == Facade(h, eng, TRUE)
pmemkv_get_between(h, eng) == Facade(h, eng, TRUE)
pmemkv_exists(h, eng) == Facade(h, eng, TRUE)
pmemkv_get(h, eng) == Facade(h, eng, TRUE)
pmemkv_put(h, eng) == Facade(h, eng, TRUE)
pmemkv_remove(h, eng) == Facade(h, eng, TRUE)

\* A pointer argument: nullptr, or the memory it points to.
NullPtr == [null |-> TRUE]
Ptr(mem) == [null |-> FALSE, mem |-> mem]

\* memset(buffer, 0, buffer_size)
memset0(buffer) == [i \in 1..Len(buffer) |-> 0]
\* memcpy(buffer, v, vb)
memcpy(buffer, v, vb) ==
    [i \in 1..Len(buffer) |-> IF i <= vb THEN v[i] ELSE buffer[i]]

\* get_copy_callback with the comparison off by one: vb <= buffer_size.
get_copy_callback_le(c, v, vb) ==
    LET sized == IF ~c.value_size.null
                 THEN [c EXCEPT !.value_size = Ptr(vb)] ELSE c
    IN  IF vb <= sized.buffer_size
        THEN [sized EXCEPT !.result = PMEMKV_STATUS_OK,
                           !.buffer = IF ~@.null
                                      THEN Ptr(memcpy(@.mem, v, vb)) ELSE @]
        ELSE [sized EXCEPT !.result = PMEMKV_STATUS_FAILED]

\* get_copy_callback(v, vb, arg): c is the GetCopyCallbackContext, with the
\* memory its buffer and value_size pointers point to.
get_copy_callback(c, v, vb) ==
    LET sized == IF ~c.value_size.null
                 THEN [c EXCEPT !.value_size = Ptr(vb)] ELSE c
    IN  IF vb < sized.buffer_size
        THEN [sized EXCEPT !.result = PMEMKV_STATUS_OK,
                           !.buffer = IF ~@.null
                                      THEN Ptr(memcpy(@.mem, v, vb)) ELSE @]
        ELSE [sized EXCEPT !.result = PMEMKV_STATUS_FAILED]

\* pmemkv_get_copy without the memset of the buffer.
pmemkv_get_copy_no_memset(h, buffer, buffer_size, value_size, eng) ==
    LET ctx == [result |-> PMEMKV_STATUS_NOT_FOUND,
                buffer_size |-> buffer_size, buffer |-> buffer,
                value_size |-> value_size]
        out(r, c) == [status |-> r.status, err |-> r.err, called |-> r.called,
                      buffer |-> c.buffer, value_size |-> c.value_size]
    IN  IF h = Null THEN {out(r, ctx) : r \in NullCall}
        ELSE IF eng.how = "found"
        THEN LET c == get_copy_callback(ctx, eng.value, Len(eng.value))
             IN  {out(Result(c.result, <<>>, TRUE), c)}
        ELSE IF eng.how = "absent"
        THEN {out(Result(ctx.result, <<>>, TRUE), ctx)}
        ELSE {out(TryEngine(eng, TRUE), ctx)}

\* pmemkv_get_copy. buffer points to the caller's buffer_size bytes and
\* value_size to the caller's size_t, or they are nullptr. The result
\* carries both as the call leaves them.
pmemkv_get_copy(h, buffer, buffer_size, value_size, eng) ==
    LET ctx == [result |-> PMEMKV_STATUS_NOT_FOUND,
                buffer_size |-> buffer_size,
                buffer |-> IF ~buffer.null
                           THEN Ptr(memset0(buffer.mem)) ELSE buffer,
                value_size |-> value_size]
        out(r, c) == [status |-> r.status, err |-> r.err, called |-> r.called,
                      buffer |-> c.buffer, value_size |-> c.value_size]
    IN  IF h = Null THEN {out(r, ctx) : r \in NullCall}
        ELSE IF eng.how = "found"
        THEN LET c == get_copy_callback(ctx, eng.value, Len(eng.value))
             IN  {out(Result(c.result, <<>>, TRUE), c)}
        ELSE IF eng.how = "absent"
        THEN {out(Result(ctx.result, <<>>, TRUE), ctx)}
        ELSE {out(TryEngine(eng, TRUE), ctx)}


\* pmemkv_open with the stat() of the path outside its #if: the path must
\* be a directory whatever engines are compiled in.
pmemkv_open_stat_always(engine, config, dbp, old, b, is_dir, ctor) ==
    LET opened(r, h) == [status |-> r.status, err |-> r.err,
                         called |-> r.called, db |-> h]
        \* *db = new engine(...); return OK;  inside the try block
        construct ==
            CASE ctor.how = "returns" ->
                   opened(Result(PMEMKV_STATUS_OK, <<>>, TRUE), engine)
              [] ctor.how = "throws_std" ->
                   opened(Result(PMEMKV_STATUS_FAILED, <<ctor.what>>, TRUE), Null)
              [] OTHER ->
                   opened(Result(PMEMKV_STATUS_FAILED,
                                 <<"Unspecified failure">>, TRUE), old)
        \* throw std::runtime_error(msg), caught by the first handler
        throw(msg) == opened(Result(PMEMKV_STATUS_FAILED, <<msg>>, FALSE), Null)
    IN  IF dbp.null
        THEN opened(Result(PMEMKV_STATUS_INVALID_ARGUMENT, <<>>, FALSE),
                    old)
        ELSE IF engine = "blackhole" THEN construct
        ELSE IF "caching" \in b /\ engine = "caching" THEN construct
        ELSE IF config.null
        THEN opened(Result(PMEMKV_STATUS_INVALID_ARGUMENT,
                           <<"Config pointer is null">>, FALSE), old)
        ELSE IF pmemkv_config_get_string(config.mem, "path").status
                    # PMEMKV_STATUS_OK
        THEN throw("JSON does not contain a valid path string")
        ELSE IF pmemkv_config_get_uint64(config.mem, "size").status
                    # PMEMKV_STATUS_OK
        THEN throw("Cannot get 'size' from the config")
        ELSE IF "tree3" \in b /\ engine = "tree3" THEN construct
        ELSE IF "stree" \in b /\ engine = "stree" THEN construct
        ELSE IF "cmap" \in b /\ engine = "cmap" THEN construct
        ELSE IF ~is_dir
        THEN throw("Config path is not an existing directory")
        ELSE IF "vsmap" \in b /\ engine = "vsmap" THEN construct
        ELSE IF "vcmap" \in b /\ engine = "vcmap" THEN construct
        ELSE throw("Unknown engine name")

\* pmemkv_open(engine, config, db). config is nullptr or the umap of the
\* caller's container; dbp is nullptr or points to the caller's handle,
\* which holds old. b is the build; is_dir is what stat() says of the path;
\* ctor is what the constructor of the engine does. The result carries the
\* handle as the call leaves it.
pmemkv_open(engine, config, dbp, old, b, is_dir, ctor) ==
    LET opened(r, h) == [status |-> r.status, err |-> r.err,
                         called |-> r.called, db |-> h]
        \* *db = new engine(...); return OK;  inside the try block
        construct ==
            CASE ctor.how = "returns" ->
                   opened(Result(PMEMKV_STATUS_OK, <<>>, TRUE), engine)
              [] ctor.how = "throws_std" ->
                   opened(Result(PMEMKV_STATUS_FAILED, <<ctor.what>>, TRUE), Null)
              [] OTHER ->
                   opened(Result(PMEMKV_STATUS_FAILED,
                                 <<"Unspecified failure">>, TRUE), old)
        \* throw std::runtime_error(msg), caught by the first handler
        throw(msg) == opened(Result(PMEMKV_STATUS_FAILED, <<msg>>, FALSE), Null)
    IN  IF dbp.null
        THEN opened(Result(PMEMKV_STATUS_INVALID_ARGUMENT, <<>>, FALSE),
                    old)
        ELSE IF engine = "blackhole" THEN construct
        ELSE IF "caching" \in b /\ engine = "caching" THEN construct
        ELSE IF config.null
        THEN opened(Result(PMEMKV_STATUS_INVALID_ARGUMENT,
                           <<"Config pointer is null">>, FALSE), old)
        ELSE IF pmemkv_config_get_string(config.mem, "path").status
                    # PMEMKV_STATUS_OK
        THEN throw("JSON does not contain a valid path string")
        ELSE IF pmemkv_config_get_uint64(config.mem, "size").status
                    # PMEMKV_STATUS_OK
        THEN throw("Cannot get 'size' from the config")
        ELSE IF "tree3" \in b /\ engine = "tree3" THEN construct
        ELSE IF "stree" \in b /\ engine = "stree" THEN construct
        ELSE IF "cmap" \in b /\ engine = "cmap" THEN construct
        ELSE IF b \cap {"vsmap", "vcmap"} # {} /\ ~is_dir
        THEN throw("Config path is not an existing directory")
        ELSE IF "vsmap" \in b /\ engine = "vsmap" THEN construct
        ELSE IF "vcmap" \in b /\ engine = "vcmap" THEN construct
        ELSE throw("Unknown engine name")

\* pmemkv_close(db): the destructor of the engine runs inside a try block.
pmemkv_close(eng) ==
    CASE eng.how = "returns" -> Result("void", <<>>, TRUE)
      [] eng.how = "throws_std" -> Result("void", <<eng.what>>, TRUE)
      [] OTHER -> Result("void", <<"Unspecified failure">>, TRUE)


\* -------------------------------------------- the facade's calls (SpecDb)

\* Containers the caller has built before pmemkv_open: an empty one, one
\* with a path, one with a path and a size, one with a negative size.
PathOnlyConfig ==
    pmemkv_config_put_string(<<>>, "path",
                             <<47, 116, 109, 112, 47, 107, 118>>, FALSE).umap
OpenConfigs ==
    {<<>>, PathOnlyConfig,
     pmemkv_config_put_uint64(PathOnlyConfig, "size", Num(FALSE, WFive),
                              FALSE).umap,
     pmemkv_config_put_int64(PathOnlyConfig, "size", Num(TRUE, WOne),
                             FALSE).umap}

\* The builds: no optional engine, those taking a pmemobj pool, all.
Builds == {{}, {"caching", "tree3", "stree", "cmap"}, OptionalEngines}

EngineNames == KnownEngines(OptionalEngines) \cup {"nonexistent-engine"}

\* What the caller's size_t holds before pmemkv_get_copy.
SizeBefore == 0 - 1
\* What the caller's buffer holds before pmemkv_get_copy.
ByteBefore == 85 + 85

\* The handles the caller passes: nullptr or the engine it opened.
Handles == {Null, db}

Running == proc = "running"

Written1(r) == IF r.err = <<>> THEN errormsg ELSE r.err[1]

\* A facade call on handle h, with the engine behaving as eng, gave r.
FacadeReturns(op, h, eng, r) ==
    /\ Running
    /\ last' = [op |-> op, handle |-> h, engine |-> eng.how,
                status |-> r.status, err |-> r.err, called |-> r.called]
    /\ errormsg' = Written1(r)
    /\ proc' = IF r.status = "SIGSEGV" THEN "crashed" ELSE proc
    /\ UNCHANGED <<configs, deleterLog, objectPuts, dbVars>>

\* No engine is there to behave when the handle is nullptr.
NoEngine == [how |-> "none"]
Behaviours(h, outcomes) == IF h = Null THEN {NoEngine} ELSE outcomes

CountAll ==
    \E h \in Handles :
        \E eng \in Behaviours(h, EngineOutcomes) :
            \E r \in pmemkv_count_all(h, eng) : FacadeReturns("count_all", h, eng, r)

CountAbove ==
    \E h \in Handles :
        \E eng \in Behaviours(h, EngineOutcomes) :
            \E r \in pmemkv_count_above(h, eng) : FacadeReturns("count_above", h, eng, r)

CountBelow ==
    \E h \in Handles :
        \E eng \in Behaviours(h, EngineOutcomes) :
            \E r \in pmemkv_count_below(h, eng) : FacadeReturns("count_below", h, eng, r)

CountBetween ==
    \E h \in Handles :
        \E eng \in Behaviours(h, EngineOutcomes) :
            \E r \in pmemkv_count_between(h, eng) : FacadeReturns("count_between", h, eng, r)

GetAll ==
    \E h \in Handles :
        \E eng \in Behaviours(h, EngineOutcomes) :
            \E r \in pmemkv_get_all(h, eng) : FacadeReturns("get_all", h, eng, r)

GetAbove ==
    \E h \in Handles :
        \E eng \in Behaviours(h, EngineOutcomes) :
            \E r \in pmemkv_get_above(h, eng) : FacadeReturns("get_above", h, eng, r)

GetBelow ==
    \E h \in Handles :
        \E eng \in Behaviours(h, EngineOutcomes) :
            \E r \in pmemkv_get_below(h, eng) : FacadeReturns("get_below", h, eng, r)

GetBetween ==
    \E h \in Handles :
        \E eng \in Behaviours(h, EngineOutcomes) :
            \E r \in pmemkv_get_between(h, eng) : FacadeReturns("get_between", h, eng, r)

Exists ==
    \E h \in Handles :
        \E eng \in Behaviours(h, EngineOutcomes) :
            \E r \in pmemkv_exists(h, eng) : FacadeReturns("exists", h, eng, r)

Get ==
    \E h \in Handles :
        \E eng \in Behaviours(h, EngineOutcomes) :
            \E r \in pmemkv_get(h, eng) : FacadeReturns("get", h, eng, r)

Put ==
    \E h \in Handles :
        \E eng \in Behaviours(h, EngineOutcomes) :
            \E r \in pmemkv_put(h, eng) : FacadeReturns("put", h, eng, r)

Remove ==
    \E h \in Handles :
        \E eng \in Behaviours(h, EngineOutcomes) :
            \E r \in pmemkv_remove(h, eng) : FacadeReturns("remove", h, eng, r)


GetCopy ==
    \E h \in Handles, n \in 0..MaxBuf, full \in BOOLEAN,
       value_size \in {NullPtr, Ptr(SizeBefore)} :
      \E eng \in Behaviours(h, GetOutcomes) :
      LET buffer == IF full THEN Ptr(Fill(n, ByteBefore)) ELSE NullPtr IN
        /\ Running
        /\ \E r \in pmemkv_get_copy(h, buffer, n, value_size, eng) :
              /\ last' = [op |-> "get_copy", handle |-> h, engine |-> eng.how,
                          status |-> r.status, err |-> r.err,
                          called |-> r.called,
                          value |-> IF eng.how = "found" THEN eng.value
                                    ELSE <<>>,
                          buffer_before |-> buffer, buffer_size |-> n,
                          buffer |-> r.buffer,
                          value_size_before |-> value_size,
                          value_size |-> r.value_size]
              /\ errormsg' = Written1(r)
              /\ proc' = IF r.status = "SIGSEGV" THEN "crashed" ELSE proc
        /\ UNCHANGED <<configs, deleterLog, objectPuts, dbVars>>

\* pmemkv_open by a caller whose handle is still nullptr.
Open ==
    \E engine \in EngineNames, config \in {NullPtr, Ptr(umap)},
       dbp \in {NullPtr, Ptr(db)}, is_dir \in BOOLEAN,
       ctor \in ConstructorOutcomes :
        /\ Running
        /\ db = Null
        /\ LET r == pmemkv_open(engine, config, dbp, db, build, is_dir, ctor)
           IN  /\ db' = r.db
               /\ last' = [op |-> "open", name |-> engine, config |-> config,
                           dbp_null |-> dbp.null, is_dir |-> is_dir,
                           status |-> r.status, err |-> r.err,
                           called |-> r.called]
               /\ errormsg' = Written1(r)
        /\ UNCHANGED <<configs, deleterLog, objectPuts, proc, build>>

\* pmemkv_close on the open engine; the caller then drops the handle.
Close ==
    \E eng \in ConstructorOutcomes :
        /\ Running
        /\ db # Null
        /\ LET r == pmemkv_close(eng)
           IN  /\ last' = [op |-> "close", handle |-> db, engine |-> eng.how,
                           status |-> r.status, err |-> r.err,
                           called |-> r.called]
               /\ errormsg' = Written1(r)
        /\ db' = Null
        /\ UNCHANGED <<configs, deleterLog, objectPuts, proc, build>>

InitOpen ==
    /\ configs \in {<<[umap |-> u, deleted |-> 0]>> : u \in OpenConfigs}
    /\ deleterLog = <<>>
    /\ objectPuts = <<>>
    /\ last = NoCall
    /\ errormsg = ""
    /\ proc = "running"
    /\ build \in Builds
    /\ db = Null

NextOpen ==
    \/ Open
    \/ Close

SpecOpen == InitOpen /\ [][NextOpen]_vars

NextDb ==
    \/ Open
    \/ Close
    \/ Put
    \/ Remove
    \/ Exists
    \/ Get
    \/ GetCopy
    \/ CountAll
    \/ CountAbove
    \/ CountBelow
    \/ CountBetween
    \/ GetAll
    \/ GetAbove
    \/ GetBelow
    \/ GetBetween

SpecDb == Init /\ [][NextDb]_vars


\* ------------------------------------------------------ claims C6 .. C10

FacadeOps ==
    {"put", "remove", "exists", "get", "get_copy", "count_all", "count_above",
     "count_below", "count_between", "get_all", "get_above", "get_below",
     "get_between"}

\* C6: pmemkv_get_copy on a key whose value (length L) the engine delivers,
\* with a buffer of size B: if L < B it returns OK, the buffer holds the
\* value followed by B - L zero bytes; if L >= B it returns FAILED and the
\* buffer holds no byte of the value; value_size, when supplied, is L.
C6_BoundedCopy ==
    (last.op = "get_copy" /\ last.engine = "found")
    => LET L == Len(last.value)
           B == last.buffer_size
       IN  /\ last.status = IF L < B THEN PMEMKV_STATUS_OK
                            ELSE PMEMKV_STATUS_FAILED
           /\ ~last.value_size_before.null => last.value_size = Ptr(L)
           /\ ~last.buffer_before.null =>
                 /\ ~last.buffer.null
                 /\ Len(last.buffer.mem) = B
                 /\ \A i \in 1..B :
                       last.buffer.mem[i] =
                           IF L < B /\ i <= L THEN last.value[i] ELSE 0

\* A value of one byte was copied into a buffer of two.
C6_Witness ==
    /\ last.op = "get_copy" /\ last.engine = "found"
    /\ Len(last.value) = 1 /\ last.buffer_size = 2
    /\ ~last.buffer_before.null /\ ~last.value_size_before.null
    /\ last.status = PMEMKV_STATUS_OK
    /\ last.buffer = Ptr(<<last.value[1], 0>>)
    /\ last.value_size = Ptr(1)

\* C7 as stated: pmemkv_get_copy on a key the engine does not hold returns
\* NOT_FOUND and leaves the destination buffer as it was.
C7_AbsentLeavesBuffer ==
    (last.op = "get_copy" /\ last.engine = "absent")
    => (last.status = PMEMKV_STATUS_NOT_FOUND
            /\ last.buffer = last.buffer_before)

\* C7 as amended: pmemkv_get_copy on a key the engine does not hold returns
\* NOT_FOUND, leaves value_size as it was, and leaves a non-null
\* destination buffer filled with zero bytes over its whole size.
C7_AbsentZeroesBuffer ==
    (last.op = "get_copy" /\ last.engine = "absent")
    => /\ last.status = PMEMKV_STATUS_NOT_FOUND
       /\ last.value_size = last.value_size_before
       /\ last.buffer.null = last.buffer_before.null
       /\ ~last.buffer_before.null =>
             last.buffer.mem = Fill(last.buffer_size, 0)

\* An absent key was asked for with a non-empty buffer.
C7_Witness ==
    /\ last.op = "get_copy" /\ last.engine = "absent"
    /\ ~last.buffer_before.null /\ last.buffer_size = 2
    /\ last.buffer_before.mem = Fill(2, ByteBefore)
    /\ last.status = PMEMKV_STATUS_NOT_FOUND
    /\ last.buffer.mem = <<0, 0>>

\* The open in `last` named an engine this build does not know and had a
\* place to put the handle.
UnknownEngineOpen ==
    last.op = "open" /\ last.name \notin KnownEngines(build) /\ ~last.dbp_null

\* C8 as stated: pmemkv_open with an unknown engine name and a non-null
\* handle pointer returns FAILED whatever the config, the message is that
\* of the unknown engine name, and the handle refers to no engine.
C8_UnknownEngineFails ==
    UnknownEngineOpen
    => /\ last.status = PMEMKV_STATUS_FAILED
       /\ errormsg = "Unknown engine name"
       /\ db = Null

\* The config holds a STRING under "path"; it holds under "size" a UINT64,
\* or an INT64 whose sign bit is clear.
HasPath(u) == "path" \in DOMAIN u /\ u["path"].type = "STRING"
HasSize(u) ==
    /\ "size" \in DOMAIN u
    /\ \/ u["size"].type = "UINT64"
       \/ u["size"].type = "INT64" /\ u["size"].value[WordSize] < 128

\* C8 as amended: pmemkv_open with an unknown engine name and a non-null
\* pointer to a null handle constructs no engine and leaves the handle null.
\* A null config gives INVALID_ARGUMENT ("Config pointer is null"); a config
\* without a string path, or without a size readable as uint64, or (in a
\* build with vsmap or vcmap) a path that is no directory, gives FAILED with
\* the message of that check; only then FAILED with "Unknown engine name".
C8_UnknownEngineByConfig ==
    UnknownEngineOpen
    => /\ db = Null
       /\ ~last.called
       /\ IF last.config.null
          THEN /\ last.status = PMEMKV_STATUS_INVALID_ARGUMENT
               /\ errormsg = "Config pointer is null"
          ELSE /\ last.status = PMEMKV_STATUS_FAILED
               /\ errormsg =
                     IF ~HasPath(last.config.mem)
                     THEN "JSON does not contain a valid path string"
                     ELSE IF ~HasSize(last.config.mem)
                     THEN "Cannot get 'size' from the config"
                     ELSE IF {"vsmap", "vcmap"} \cap build # {}
                             /\ ~last.is_dir
                     THEN "Config path is not an existing directory"
                     ELSE "Unknown engine name"

\* An unknown engine was asked for with a complete config, in a build that
\* never looks at the directory, and the path is no directory.
C8_Witness ==
    /\ UnknownEngineOpen
    /\ ~last.config.null /\ HasPath(last.config.mem) /\ HasSize(last.config.mem)
    /\ {"vsmap", "vcmap"} \cap build = {} /\ ~last.is_dir
    /\ last.status = PMEMKV_STATUS_FAILED
    /\ errormsg = "Unknown engine name"

\* C9: whenever the engine throws inside a facade operation, be it a
\* std::exception or not, the operation returns FAILED and no exception
\* leaves the call.
C9_EveryExceptionCaught ==
    (last.op \in FacadeOps /\ last.engine \in {"throws_std", "throws_other"})
    => last.status = PMEMKV_STATUS_FAILED

\* C10: a facade operation given a null handle returns INVALID_ARGUMENT
\* without calling an engine, and pmemkv_open given a null handle pointer
\* returns INVALID_ARGUMENT.
C10_NullHandleInvalidArgument ==
    /\ (last.op \in FacadeOps /\ last.handle = Null)
       => (last.status = PMEMKV_STATUS_INVALID_ARGUMENT /\ ~last.called)
    /\ (last.op = "open" /\ last.dbp_null)
       => last.status = PMEMKV_STATUS_INVALID_ARGUMENT

\* ------------------------------------------------------------- claim C11

\* The calls of the configuration container and of the query facade that
\* return a status.
StatusOps == PutOps \cup GetOps \cup {"config_from_json"} \cup FacadeOps

\* C11: whenever a configuration container or query facade call returns a
\* status other than OK, that call has written the last-error message slot
\* with ERR(), so the message read next is this call's and no earlier one's.
C11_ErrorMessageWritten ==
    (last.op \in StatusOps /\ last.status \in Statuses \ {PMEMKV_STATUS_OK})
    => Len(last.err) > 0

=============================================================================
